---- MODULE Spec2Model ----
(***************************************************************************)
(* A model of the DataSet class of src/src/datasets/data_set.py and of the *)
(* EditedKNN class of src/src/algorithms/edited_knn.py.                    *)
(*                                                                         *)
(* Python objects are modelled by reference: `heap` maps a row reference   *)
(* to the row's field values, and a DataSet's `data` list is a sequence of *)
(* row references.  A slice or list.copy() builds a new sequence holding   *)
(* the same references, which is what the Python code does.                *)
(*                                                                         *)
(* Python lists are 0-based; TLA+ sequences are 1-based.  Row lists are    *)
(* sequences and Python's index i is element i+1.  Columns keep Python's   *)
(* 0-based indices: a row is a function over Cols.                         *)
(***************************************************************************)
EXTENDS Integers, Sequences, FiniteSets, TLC

VARIABLES
    heap,     \* row reference -> row (function Cols -> value)
    data,     \* self.data of the source DataSet: sequence of row references
    folds,    \* the list returned by the last validation_folds call
    parts,    \* the pair returned by the last partition call (<<>> if none)
    copied,   \* the data lists of the DataSets returned by copy()
    knn,      \* the EditedKNN object (built, training_data, k)
    last      \* the last operation: its name, arguments and outcome

vars == <<heap, data, folds, parts, copied, knn, last>>

----------------------------------------------------------------------------
(* Bounds of the model.                                                    *)

MaxLen == 10       \* rows of the source DataSet in the fold specification
MaxFolds == 12     \* largest n passed to validation_folds
MaxRows == 3       \* rows of the source DataSet in the other specifications
MaxTyped == 2      \* rows of the source DataSet in the field-type specification
MaxDen == 3        \* partition fractions are p/q with 0 <= p <= q <= MaxDen
MaxTrain == 4      \* rows of the training DataSet handed to EditedKNN
MaxAttr == 3       \* the training rows' attribute values are 0..MaxAttr
MaxK == 2          \* largest k handed to EditedKNN

----------------------------------------------------------------------------
(* Field values.  A field is a Python str (k = "str", text s), or a number *)
(* (k = "num", value n), or the float produced by normalize_z_score        *)
(* (k = "z": the real number n / sqrt(d), kept symbolic because it is      *)
(* irrational in general).                                                 *)

Str(s) == [k |-> "str", s |-> s, n |-> 0, d |-> 0]
Num(n) == [k |-> "num", s |-> "", n |-> n, d |-> 0]
ZScore(n, d) == IF n = 0 THEN Num(0) ELSE [k |-> "z", s |-> "", n |-> n, d |-> d]

\* isinstance(v, str)
IsStr(v) == v.k = "str"

\* The DataSets of the model have three columns: two attributes and the class.
Cols == {0, 1, 2}
attr_cols == <<0, 1>>
class_col == 2

Range(s) == {s[i] : i \in DOMAIN s}

\* Python's floor division for a non-negative numerator and positive divisor.
FloorDiv(a, b) == a \div b

Min(a, b) == IF a < b THEN a ELSE b

\* s[a:b] for 0 <= a, 0 <= b (Python clamps both to len(s)).
PySlice(s, a, b) == SubSeq(s, Min(a, Len(s)) + 1, Min(b, Len(s)))

\* s[a:]
PySliceFrom(s, a) == SubSeq(s, Min(a, Len(s)) + 1, Len(s))

\* The DataSets an operation can be called on: the source, a fold's train or
\* test DataSet, a part returned by partition, the DataSet returned by copy.
Target(kind, i) == [kind |-> kind, i |-> i]

Source == Target("source", 0)

MkLast(op, err, arg, cols, target) ==
    [op |-> op, err |-> err, arg |-> arg, cols |-> cols, target |-> target, rows |-> <<>>]

NoOp == MkLast("none", FALSE, 0, {}, Source)

NoKnn == [built |-> FALSE, training_data |-> <<>>, k |-> 0]

----------------------------------------------------------------------------
(* DataSet.validation_folds                                                *)

\* A bug: every section starts at a multiple of floor(len / n).
SectionStart_FloorSize(len, n, i) == i * FloorDiv(len, n)

\* math.floor(avg_size * i) with avg_size = len(self.data) / n.  The float
\* product is exact enough for floor to equal floor(len * i / n) for every
\* len and n below 22, which covers MaxLen and MaxFolds.
SectionStart(len, n, i) == FloorDiv(len * i, n)

\* A bug: each section but the last runs one row into the next section.
Sections_Overlapping(d, n) ==
    [j \in 1..n |->
        LET i == j - 1 IN
        IF i = n - 1
        THEN PySliceFrom(d, SectionStart(Len(d), n, i))
        ELSE PySlice(d, SectionStart(Len(d), n, i), SectionStart(Len(d), n, i + 1) + 1)]

\* sections[i] for i in range(n) (here i = 0 .. n-1, element i+1).
Sections(d, n) ==
    [j \in 1..n |->
        LET i == j - 1 IN
        IF i = n - 1
        THEN PySliceFrom(d, SectionStart(Len(d), n, i))
        ELSE PySlice(d, SectionStart(Len(d), n, i), SectionStart(Len(d), n, i + 1))]

RECURSIVE TrainOf_LaterOnly(_, _, _)
\* A bug: the train set keeps only the sections after the fold's own.
TrainOf_LaterOnly(sections, i, j) ==
    IF j > Len(sections) THEN <<>>
    ELSE (IF j > i THEN sections[j] ELSE <<>>) \o TrainOf_LaterOnly(sections, i, j + 1)

RECURSIVE TrainOf(_, _, _)
\* train = []; for j in range(n): if i != j: train += sections[j]
\* (j counts sections from 1, i is the fold's section).
TrainOf(sections, i, j) ==
    IF j > Len(sections) THEN <<>>
    ELSE (IF j # i THEN sections[j] ELSE <<>>) \o TrainOf(sections, i, j + 1)

validation_folds(d, n) ==
    LET sections == Sections(d, n) IN
    [i \in 1..n |-> [test |-> sections[i], train |-> TrainOf(sections, i, 1)]]

\* remove_header: self.data = self.data[length:]
remove_header(d, length) == PySliceFrom(d, length)

----------------------------------------------------------------------------
(* DataSet.partition, copy, sample, shuffle                                *)

\* math.floor(first_percentage * len(self.data)) for first_percentage = p/q.
\* The float product floors to floor(p * len / q) for every q <= 6 and
\* len <= 12, which covers MaxDen and MaxRows.
Cutoff(p, q, len) == FloorDiv(p * len, q)

\* A bug: the second part starts one row after the cutoff.
partition_SkipsCutoffRow(d, p, q) ==
    LET cutoff == Cutoff(p, q, Len(d)) IN
    <<PySlice(d, 0, cutoff), PySliceFrom(d, cutoff + 1)>>

\* first = DataSet(self.data[:cutoff], ...); second = DataSet(self.data[cutoff:], ...)
partition(d, p, q) ==
    LET cutoff == Cutoff(p, q, Len(d)) IN
    <<PySlice(d, 0, cutoff), PySliceFrom(d, cutoff)>>

\* self.data.copy(): a new list of the same row references.
copy(d) == [i \in DOMAIN d |-> d[i]]

Injective(f) == \A i, j \in DOMAIN f : i # j => f[i] # f[j]

\* A bug: positions drawn with replacement.
SampleChoices_WithReplacement(len, k) == [1..k -> 1..len]

\* The position lists random.sample(population, k) can draw: k distinct
\* positions of the population, in any order.
SampleChoices(len, k) == {pos \in [1..k -> 1..len] : Injective(pos)}

\* The orders random.shuffle can leave a list of len elements in.
ShuffleOrders(len) == {pos \in [1..len -> 1..len] : Injective(pos)}

----------------------------------------------------------------------------
(* Field texts and float()                                                 *)

\* The decimal numerals the model's files hold; Numeral[i + 1] is the text of i.
Numeral == <<"0", "1", "2", "3", "4", "5">>

\* The texts a field read from a file holds here: two numerals and a word.
Texts == {"0", "1", "x"}

IsNumeral(s) == \E i \in DOMAIN Numeral : Numeral[i] = s

ParseNumeral(s) == (CHOOSE i \in DOMAIN Numeral : Numeral[i] = s) - 1

\* Whether float(v) returns: v is a number already, or a numeral's text.
CanFloat(v) == ~IsStr(v) \/ IsNumeral(v.s)

\* float(v) where it returns.
ToFloat(v) == IF IsStr(v) THEN Num(ParseNumeral(v.s)) ELSE v

----------------------------------------------------------------------------
(* DataSet.convert_to_float, convert_attribute, normalize_z_score          *)

\* len(line)
NumCols(line) == Cardinality(DOMAIN line)

RECURSIVE ConvertLine(_, _, _)
\* for i in range(len(line)): if i not in cols: continue; line[i] = float(line[i])
\* from column i on; err when float raises ValueError, which ends the call.
ConvertLine(line, i, cols) ==
    IF i >= NumCols(line) THEN [line |-> line, err |-> FALSE]
    ELSE IF i \notin cols THEN ConvertLine(line, i + 1, cols)
    ELSE IF ~CanFloat(line[i]) THEN [line |-> line, err |-> TRUE]
    ELSE ConvertLine([line EXCEPT ![i] = ToFloat(line[i])], i + 1, cols)

RECURSIVE ConvertLines(_, _, _, _)
\* for line in self.data, from list position j on.
ConvertLines(h, d, j, cols) ==
    IF j > Len(d) THEN [heap |-> h, err |-> FALSE]
    ELSE LET r == ConvertLine(h[d[j]], 0, cols)
             h2 == [h EXCEPT ![d[j]] = r.line]
         IN IF r.err THEN [heap |-> h2, err |-> TRUE]
            ELSE ConvertLines(h2, d, j + 1, cols)

\* A bug (or a repair the code does not make): a failed call restores the rows.
convert_to_float_RollsBack(h, d, cols) ==
    LET r == ConvertLines(h, d, 1, cols) IN
    IF r.err THEN [heap |-> h, err |-> TRUE] ELSE r

\* A bug: the first row is taken for a header and left unconverted.
convert_to_float_SkipsFirstRow(h, d, cols) == ConvertLines(h, d, 2, cols)

convert_to_float(h, d, cols) == ConvertLines(h, d, 1, cols)

RECURSIVE convert_attribute_from(_, _, _, _, _)
\* for row in self.data: if row[col] in value_map: row[col] = value_map[row[col]]
convert_attribute_from(h, d, j, col, value_map) ==
    IF j > Len(d) THEN h
    ELSE LET v == h[d[j]][col] IN
         convert_attribute_from(
             IF v \in DOMAIN value_map
             THEN [h EXCEPT ![d[j]][col] = value_map[v]]
             ELSE h,
             d, j + 1, col, value_map)

convert_attribute(h, d, col, value_map) == convert_attribute_from(h, d, 1, col, value_map)

RECURSIVE ColSum(_, _, _, _)
\* col_sum = 0; for row in self.data: col_sum += row[col]
ColSum(h, d, j, col) ==
    IF j > Len(d) THEN 0 ELSE h[d[j]][col].n + ColSum(h, d, j + 1, col)

RECURSIVE SumSquareDiffs(_, _, _, _, _)
\* sum of (mean - row[col])**2, times len(self.data)**2 to stay in the
\* integers: mean = col_sum / len, so len * (mean - x) = col_sum - len * x.
SumSquareDiffs(h, d, j, col, col_sum) ==
    IF j > Len(d) THEN 0
    ELSE LET t == col_sum - Len(d) * h[d[j]][col].n IN
         t * t + SumSquareDiffs(h, d, j + 1, col, col_sum)

\* One column of normalize_z_score over rows that hold numbers in it:
\* z = (x - mean) / sqrt(sum_square_diffs) = (len*x - col_sum) / sqrt(ssd),
\* and 0 when the standard deviation is 0.
NormalizeColumn(h, d, col) ==
    LET col_sum == ColSum(h, d, 1, col)
        ssd == SumSquareDiffs(h, d, 1, col, col_sum)
    IN [x \in DOMAIN h |->
           IF x \in Range(d)
           THEN [h[x] EXCEPT ![col] =
                    IF ssd = 0 THEN Num(0) ELSE ZScore(Len(d) * h[x][col].n - col_sum, ssd)]
           ELSE h[x]]

RECURSIVE normalize_from(_, _, _, _)
\* for col in cols (a list), from list position j on.  `col_sum += row[col]`
\* raises TypeError on a str, and col_sum / len(self.data) raises
\* ZeroDivisionError on an empty DataSet, both before the column is written;
\* the columns before it stay normalized.
normalize_from(h, d, cols, j) ==
    IF j > Len(cols) THEN [heap |-> h, err |-> FALSE]
    ELSE IF d = <<>> \/ \E i \in DOMAIN d : IsStr(h[d[i]][cols[j]])
    THEN [heap |-> h, err |-> TRUE]
    ELSE normalize_from(NormalizeColumn(h, d, cols[j]), d, cols, j + 1)

normalize_z_score(h, d, cols) == normalize_from(h, d, cols, 1)

----------------------------------------------------------------------------
(* DataSet.get_str_attr_cols and DataSet.distance                          *)

\* The attribute columns whose value in self.data[0] is a str; IndexError
\* (err) on an empty DataSet.
get_str_attr_cols(h, d) ==
    IF d = <<>> THEN [err |-> TRUE, cols |-> <<>>]
    ELSE [err |-> FALSE, cols |-> SelectSeq(attr_cols, LAMBDA c : IsStr(h[d[1]][c]))]

\* A bug: a numeric column adds the difference, not its square.
DistanceTerm_NoSquare(a, b, col, str_attr_cols) ==
    IF col \in Range(str_attr_cols)
    THEN [err |-> FALSE, t |-> IF a[col] # b[col] THEN 1 ELSE 0]
    ELSE IF IsStr(a[col]) \/ IsStr(b[col])
    THEN [err |-> TRUE, t |-> 0]
    ELSE [err |-> FALSE, t |-> a[col].n - b[col].n]

\* What one attribute column adds to the sum; a str in a column that is not
\* in str_attr_cols makes the subtraction raise TypeError (err).
DistanceTerm(a, b, col, str_attr_cols) ==
    IF col \in Range(str_attr_cols)
    THEN [err |-> FALSE, t |-> IF a[col] # b[col] THEN 1 ELSE 0]
    ELSE IF IsStr(a[col]) \/ IsStr(b[col])
    THEN [err |-> TRUE, t |-> 0]
    ELSE [err |-> FALSE, t |-> (a[col].n - b[col].n) * (a[col].n - b[col].n)]

RECURSIVE DistanceSum(_, _, _, _)
\* for attr_col in self.attr_cols, from list position j on
DistanceSum(a, b, j, str_attr_cols) ==
    IF j > Len(attr_cols) THEN [err |-> FALSE, sum |-> 0]
    ELSE LET term == DistanceTerm(a, b, attr_cols[j], str_attr_cols)
             rest == DistanceSum(a, b, j + 1, str_attr_cols)
         IN IF term.err THEN [err |-> TRUE, sum |-> 0]
            ELSE [err |-> rest.err, sum |-> IF rest.err THEN 0 ELSE term.t + rest.sum]

\* distance(a, b) = math.sqrt(sum): the result is kept as the sum under the
\* root (sqrt_of), since the root is irrational in general; math.sqrt is
\* injective and math.sqrt(0) = 0.
distance(h, d, a, b) ==
    LET s == get_str_attr_cols(h, d) IN
    IF s.err THEN [err |-> TRUE, sqrt_of |-> 0]
    ELSE LET r == DistanceSum(a, b, 1, s.cols) IN [err |-> r.err, sqrt_of |-> r.sum]

----------------------------------------------------------------------------
(* KNN (src/algorithms/knn.py is not among the sources: its constructor    *)
(* and its vote follow the specification's section 4.3) and EditedKNN.     *)

\* KNN.__init__(training_data, k): the predictor keeps the training DataSet
\* (its row list) as its reference set.
KNNInit(training_data, k) == [built |-> TRUE, training_data |-> training_data, k |-> k]

\* The squared distance from the observation q to row j of the row list L,
\* by the DataSet's distance over L.
QueryDistance(h, L, q, j) == distance(h, L, q, h[L[j]]).sqrt_of

\* How many rows of L come before row j by distance to q, ties by list order.
NeighborRank(h, L, q, j) ==
    Cardinality({i \in DOMAIN L :
        \/ QueryDistance(h, L, q, i) < QueryDistance(h, L, q, j)
        \/ (QueryDistance(h, L, q, i) = QueryDistance(h, L, q, j) /\ i < j)})

\* predict(query): the plurality class among the k nearest rows of L (all
\* rows when k exceeds their number); a tie goes to the class met first in
\* neighbor order.  Defined for a non-empty L.
KNNPredict(h, L, q, k) ==
    LET selected == {j \in DOMAIN L : NeighborRank(h, L, q, j) < k}
        ClassOf(j) == h[L[j]][class_col]
        Votes(c) == Cardinality({j \in selected : ClassOf(j) = c})
        FirstMet(c) ==
            CHOOSE r \in 0..Len(L) :
                /\ \E j \in selected : ClassOf(j) = c /\ NeighborRank(h, L, q, j) = r
                /\ \A j \in selected : ClassOf(j) = c => NeighborRank(h, L, q, j) >= r
        classes == {ClassOf(j) : j \in selected}
    IN CHOOSE c \in classes :
          \A c2 \in classes \ {c} :
              Votes(c) > Votes(c2) \/ (Votes(c) = Votes(c2) /\ FirstMet(c) < FirstMet(c2))

\* EditedKNN.edit_training_data: the body is the expression statement
\* 'empty'; self.training_data is left as the constructor set it.
edit_training_data(k_nn) == k_nn

\* EditedKNN.__init__: super().__init__(training_data, k), then
\* self.edit_training_data().
EditedKNNInit(training_data, k) == edit_training_data(KNNInit(training_data, k))

----------------------------------------------------------------------------
(* Actions shared by the specifications.                                   *)

ValidationFolds(n) ==
    /\ IF n = 0
       THEN \* len(self.data) / 0 raises ZeroDivisionError
            /\ folds' = folds
            /\ last' = MkLast("validation_folds", TRUE, n, {}, Source)
       ELSE /\ folds' = validation_folds(data, n)
            /\ last' = MkLast("validation_folds", FALSE, n, {}, Source)
    /\ UNCHANGED <<heap, data, parts, copied, knn>>

\* The rows still referred to by a DataSet once the source's list is d; a row
\* no list refers to is gone (Python frees it, and nothing can observe it).
Collect(h, d) ==
    LET live == Range(d)
                \cup UNION {Range(folds[i].train) \cup Range(folds[i].test) : i \in DOMAIN folds}
                \cup UNION {Range(parts[i]) : i \in DOMAIN parts}
                \cup UNION {Range(copied[i]) : i \in DOMAIN copied}
                \cup Range(knn.training_data)
    IN [x \in DOMAIN h \cap live |-> h[x]]

RemoveHeader(length) ==
    /\ data' = remove_header(data, length)
    /\ heap' = Collect(heap, data')
    /\ last' = MkLast("remove_header", FALSE, length, {}, Source)
    /\ UNCHANGED <<folds, parts, copied, knn>>

Partition(p, q) ==
    /\ parts' = partition(data, p, q)
    /\ last' = MkLast("partition", FALSE, p, {q}, Source)
    /\ UNCHANGED <<heap, data, folds, copied, knn>>

Copy ==
    /\ copied' = <<copy(data)>>
    /\ last' = MkLast("copy", FALSE, 0, {}, Source)
    /\ UNCHANGED <<heap, data, folds, parts, knn>>

\* self.data = random.sample(self.data, k): ValueError, before the
\* assignment, when k is negative or above the population's size.
Sample(k) ==
    /\ IF k < 0 \/ k > Len(data)
       THEN /\ data' = data
            /\ last' = MkLast("sample", TRUE, k, {}, Source)
       ELSE \E pos \in SampleChoices(Len(data), k) :
            /\ data' = [j \in 1..k |-> data[pos[j]]]
            /\ last' = MkLast("sample", FALSE, k, {}, Source)
    /\ heap' = Collect(heap, data')
    /\ UNCHANGED <<folds, parts, copied, knn>>

\* random.shuffle(self.data)
Shuffle ==
    /\ \E pos \in ShuffleOrders(Len(data)) :
          data' = [j \in DOMAIN data |-> data[pos[j]]]
    /\ last' = MkLast("shuffle", FALSE, 0, {}, Source)
    /\ UNCHANGED <<heap, folds, parts, copied, knn>>

Targets ==
    {Source}
    \cup {Target("train", i) : i \in DOMAIN folds}
    \cup {Target("test", i) : i \in DOMAIN folds}
    \cup {Target("part", i) : i \in DOMAIN parts}
    \cup {Target("copy", i) : i \in DOMAIN copied}

\* The row list (self.data) of a DataSet.
DataOf(t) ==
    CASE t.kind = "source" -> data
      [] t.kind = "train" -> folds[t.i].train
      [] t.kind = "test" -> folds[t.i].test
      [] t.kind = "part" -> parts[t.i]
      [] t.kind = "copy" -> copied[t.i]

ConvertToFloat(t, cols) ==
    /\ LET r == convert_to_float(heap, DataOf(t), cols) IN
          /\ heap' = r.heap
          /\ last' = MkLast("convert_to_float", r.err, 0, cols, t)
    /\ UNCHANGED <<data, folds, parts, copied, knn>>

ConvertAttribute(t, col, value_map) ==
    /\ heap' = convert_attribute(heap, DataOf(t), col, value_map)
    /\ last' = MkLast("convert_attribute", FALSE, col, {}, t)
    /\ UNCHANGED <<data, folds, parts, copied, knn>>

NormalizeZScore(t, cols) ==
    /\ LET r == normalize_z_score(heap, DataOf(t), cols) IN
          /\ heap' = r.heap
          /\ last' = MkLast("normalize_z_score", r.err, 0, Range(cols), t)
    /\ UNCHANGED <<data, folds, parts, copied, knn>>

\* distance(a, b) for two observations a and b; changes nothing.
Distance(a, b) ==
    /\ LET r == distance(heap, data, a, b) IN
          last' = [MkLast("distance", r.err, r.sqrt_of, {}, Source) EXCEPT !.rows = <<a, b>>]
    /\ UNCHANGED <<heap, data, folds, parts, copied, knn>>

----------------------------------------------------------------------------
(* The fold specification: a DataSet of 0..MaxLen rows, whose rows repeat  *)
(* with period m so that equal rows occur, listed in file order or in      *)
(* reverse (as after a shuffle), cut into folds.                           *)

FoldRow(i, m) == [c \in Cols |-> Num((i * (c + 1)) % m)]

InitFolds ==
    /\ \E len \in 0..MaxLen, m \in 1..3, rev \in BOOLEAN :
          /\ heap = [i \in 1..len |-> FoldRow(i, m)]
          /\ data = [i \in 1..len |-> IF rev THEN len + 1 - i ELSE i]
    /\ folds = <<>>
    /\ parts = <<>>
    /\ copied = <<>>
    /\ knn = NoKnn
    /\ last = NoOp

NextFolds == \E n \in 0..MaxFolds : ValidationFolds(n)

SpecFolds == InitFolds /\ [][NextFolds]_vars

\* The folds in `folds` are those of a successful validation_folds(n), n >= 1.
FoldsMade == last.op = "validation_folds" /\ ~last.err /\ last.arg >= 1

TestSizes == [i \in DOMAIN folds |-> Len(folds[i].test)]

RECURSIVE ConcatTests(_)
ConcatTests(i) == IF i > Len(folds) THEN <<>> ELSE folds[i].test \o ConcatTests(i + 1)

\* How many rows of the list d hold the field values of row r.
CountRows(d, r) == Cardinality({i \in DOMAIN d : heap[d[i]] = r})

\* How many times the row reference x occurs in the list d.
CountRef(d, x) == Cardinality({i \in DOMAIN d : d[i] = x})

RECURSIVE SumLens(_)
SumLens(i) ==
    IF i > Len(folds) THEN 0
    ELSE Len(folds[i].train) + Len(folds[i].test) + SumLens(i + 1)

(* C2, as the claim states it: sections 0..n-2 have exactly floor(len/n)   *)
(* rows, section n-1 takes the whole remainder, and 10 rows with n = 4     *)
(* give the test-set sizes [2,2,2,4].                                      *)
C2_FloorSections ==
    FoldsMade =>
        LET n == last.arg
            len == Len(data)
        IN /\ Len(folds) = n
           /\ \A i \in 1..(n - 1) : Len(folds[i].test) = FloorDiv(len, n)
           /\ Len(folds[n].test) = len - (n - 1) * FloorDiv(len, n)
           /\ (len = 10 /\ n = 4) => TestSizes = <<2, 2, 2, 4>>

(* C2, amended: the n test sets are contiguous sections that follow each   *)
(* other through the rows; section i (from 0) has                          *)
(* floor((i+1)*len/n) - floor(i*len/n) rows, which is floor(len/n) or one  *)
(* more, so the remainder is spread over the sections; 10 rows with n = 4  *)
(* give the sizes [2,3,2,3].                                               *)
C2_SpreadSections ==
    FoldsMade =>
        LET n == last.arg
            len == Len(data)
        IN /\ Len(folds) = n
           /\ ConcatTests(1) = data
           /\ \A i \in 1..n :
                 /\ Len(folds[i].test) = ((i * len) \div n) - (((i - 1) * len) \div n)
                 /\ Len(folds[i].test) \in {len \div n, (len \div n) + 1}
           /\ (len = 10 /\ n = 4) => TestSizes = <<2, 3, 2, 3>>

C2_Witness ==
    /\ FoldsMade
    /\ Len(data) = 10
    /\ last.arg = 4
    /\ TestSizes = <<2, 3, 2, 3>>

(* C3: in every fold the train rows together with the test rows are the    *)
(* source rows as a multiset of rows, and the lengths of all folds' train  *)
(* and test sets add up to n * len(source).                                *)
C3_TrainTestCoverSource ==
    FoldsMade =>
        /\ \A i \in DOMAIN folds :
              \A r \in {heap[x] : x \in Range(data)} \cup
                       {heap[x] : x \in Range(folds[i].train) \cup Range(folds[i].test)} :
                 CountRows(folds[i].train, r) + CountRows(folds[i].test, r)
                     = CountRows(data, r)
        /\ SumLens(1) = last.arg * Len(data)

C3_Witness ==
    /\ FoldsMade
    /\ last.arg = 3
    /\ Len(data) = 7
    /\ \E i, j \in DOMAIN data : i # j /\ heap[data[i]] = heap[data[j]]
    /\ \A i \in DOMAIN folds : folds[i].train # <<>> /\ folds[i].test # <<>>

(* C4: every row of the source is in the test set of exactly one fold,     *)
(* once, and no row of a fold is in both its train and its test set; with  *)
(* n above the row count some test sets are empty and no error is raised.  *)
C4_TestSetsPartitionRows ==
    (last.op = "validation_folds" /\ last.arg >= 1) =>
        /\ ~last.err
        /\ Len(folds) = last.arg
        /\ \A p \in DOMAIN data :
              /\ Cardinality({i \in DOMAIN folds : CountRef(folds[i].test, data[p]) > 0}) = 1
              /\ \A i \in DOMAIN folds : CountRef(folds[i].test, data[p]) <= 1
        /\ \A i \in DOMAIN folds :
              /\ Range(folds[i].test) \cap Range(folds[i].train) = {}
              /\ Range(folds[i].test) \subseteq Range(data)

C4_Witness ==
    /\ FoldsMade
    /\ last.arg > Len(data)
    /\ Len(data) = 3
    /\ \E i \in DOMAIN folds : folds[i].test = <<>>
    /\ Cardinality({i \in DOMAIN folds : Len(folds[i].test) = 1}) = 3

----------------------------------------------------------------------------
(* The row-list specification: the operations that rearrange or cut the    *)
(* row list of a DataSet of 0..MaxRows rows.                               *)

InitOps ==
    /\ \E len \in 0..MaxRows, m \in 1..2 :
          /\ heap = [i \in 1..len |-> FoldRow(i, m)]
          /\ data = [i \in 1..len |-> i]
    /\ folds = <<>>
    /\ parts = <<>>
    /\ copied = <<>>
    /\ knn = NoKnn
    /\ last = NoOp

NextOps ==
    \/ Shuffle
    \/ \E k \in (0 - 1)..(MaxRows + 1) : Sample(k)
    \/ \E length \in 0..2 : RemoveHeader(length)
    \/ \E q \in 1..MaxDen : \E p \in 0..q : Partition(p, q)

SpecOps == InitOps /\ [][NextOps]_vars

(* C6: partition(f) returns the source rows before index                   *)
(* floor(f * row_count) and the rows from that index on, in source order,  *)
(* so the two lengths add up to the source's, and leaves the source's own  *)
(* row list unchanged.                                                     *)
C6_PartitionSplitsInOrder ==
    [][last'.op = "partition" =>
          LET p == last'.arg
              q == CHOOSE x \in last'.cols : TRUE
              first == parts'[1]
              second == parts'[2]
          IN /\ Len(first) = (p * Len(data)) \div q
             /\ first \o second = data
             /\ Len(first) + Len(second) = Len(data)
             /\ data' = data]_vars

C6_Witness ==
    /\ last.op = "partition"
    /\ last.arg = 1
    /\ last.cols = {2}
    /\ Len(data) = 3
    /\ data # <<1, 2, 3>>
    /\ Len(parts[1]) = 1
    /\ Len(parts[2]) = 2

(* C8: sample(k) with 0 <= k <= row count replaces the rows by k rows      *)
(* taken from k distinct positions of the previous row list; sample(k)     *)
(* with k above the row count fails and leaves the rows unchanged.         *)
C8_SampleDistinctOrFails ==
    [][last'.op = "sample" =>
          LET k == last'.arg IN
          /\ (0 <= k /\ k <= Len(data)) =>
                /\ ~last'.err
                /\ Len(data') = k
                /\ \E pos \in [1..k -> DOMAIN data] :
                      /\ \A i, j \in 1..k : i # j => pos[i] # pos[j]
                      /\ \A j \in 1..k : data'[j] = data[pos[j]]
          /\ k > Len(data) => (last'.err /\ data' = data)]_vars

C8_Witness ==
    /\ last.op = "sample"
    /\ ~last.err
    /\ last.arg = 2
    /\ data = <<3, 1>>

----------------------------------------------------------------------------
(* The field-type specification: a DataSet as read from a file (every      *)
(* field a str), converted in place and rearranged.                        *)

\* The value maps passed to convert_attribute: a categorical word to its
\* ordinal, and a word to another text.
ValueMaps == {Str("x") :> Num(0), Str("x") :> Str("1")}

\* The rows of the file: any text in column 0, the word or a numeral in
\* column 1, the class label in the class column.
FileRows ==
    {r \in [Cols -> {Str(t) : t \in Texts}] : r[1] # Str("0") /\ r[class_col] = Str("x")}

InitTypes ==
    /\ \E len \in 0..MaxTyped :
          /\ heap \in [1..len -> FileRows]
          /\ data = [i \in 1..len |-> i]
    /\ folds = <<>>
    /\ parts = <<>>
    /\ copied = <<>>
    /\ knn = NoKnn
    /\ last = NoOp

NextTypes ==
    \/ Shuffle
    \/ \E k \in 0..MaxTyped : Sample(k)
    \/ RemoveHeader(1)
    \/ \E col \in Range(attr_cols), value_map \in ValueMaps :
          ConvertAttribute(Source, col, value_map)
    \/ \E cols \in {{0}, {1}, {0, 1}, Cols} : ConvertToFloat(Source, cols)

SpecTypes == InitTypes /\ [][NextTypes]_vars

\* The set of columns get_str_attr_cols returns for the source DataSet.
StrCols(h, d) == Range(get_str_attr_cols(h, d).cols)

\* Every row of the list has a str in the same attribute columns.
UniformTypes(h, d) ==
    \A i, j \in DOMAIN d : \A c \in Range(attr_cols) :
        IsStr(h[d[i]][c]) = IsStr(h[d[j]][c])

RearrangingOps == {"shuffle", "sample", "remove_header"}

(* C9, as the claim states it: after a shuffle, sample, remove_header,     *)
(* convert_attribute or convert_to_float call that leaves the DataSet      *)
(* non-empty, get_str_attr_cols returns the same set of columns as before. *)
C9_StrColsStable ==
    [][(/\ last'.op \in RearrangingOps \cup {"convert_attribute", "convert_to_float"}
        /\ data # <<>>
        /\ data' # <<>>)
       => StrCols(heap', data') = StrCols(heap, data)]_vars

(* C9, amended: get_str_attr_cols is derived on every call from the first  *)
(* row.  shuffle, sample and remove_header leave it unchanged when every   *)
(* row has a str in the same attribute columns and a row remains; a        *)
(* convert_to_float(cols) that succeeds removes the columns of cols from   *)
(* it; convert_attribute(col, map) can change it in column col only.       *)
C9_StrColsFollowFirstRow ==
    [][(data # <<>> /\ data' # <<>>) =>
          /\ (last'.op \in RearrangingOps /\ UniformTypes(heap, data))
                => StrCols(heap', data') = StrCols(heap, data)
          /\ (last'.op = "convert_to_float" /\ ~last'.err)
                => StrCols(heap', data') = StrCols(heap, data) \ last'.cols
          /\ last'.op = "convert_attribute"
                => StrCols(heap', data') \ {last'.arg} = StrCols(heap, data) \ {last'.arg}]_vars

C9_Witness ==
    /\ last.op = "convert_to_float"
    /\ ~last.err
    /\ last.cols = {0}
    /\ Len(data) = 2
    /\ StrCols(heap, data) = {1}

\* Position (i, c) is visited before position (fi, fc): rows in list order,
\* the columns of a row in ascending order.
VisitedBefore(i, c, fi, fc) == i < fi \/ (i = fi /\ c < fc)

(* C10: a convert_to_float(cols) that fails is not rolled back: every      *)
(* value of a column of cols visited before the failing one holds its      *)
(* float, the failing value and the values after it are unchanged, and no  *)
(* column outside cols is changed in any row.                              *)
C10_ConvertToFloatNotRolledBack ==
    [][(last'.op = "convert_to_float" /\ last'.err) =>
          LET cols == last'.cols
              Fails(i, c) == c \in cols /\ ~CanFloat(heap[data[i]][c])
          IN /\ data' = data
             /\ \E fi \in DOMAIN data, fc \in Cols :
                   /\ Fails(fi, fc)
                   /\ \A i \in DOMAIN data, c \in Cols :
                         Fails(i, c) => ~VisitedBefore(i, c, fi, fc)
                   /\ \A i \in DOMAIN data, c \in Cols :
                         heap'[data[i]][c] =
                            IF c \in cols /\ VisitedBefore(i, c, fi, fc)
                            THEN ToFloat(heap[data[i]][c])
                            ELSE heap[data[i]][c]
             /\ \A x \in DOMAIN heap \ Range(data) : heap'[x] = heap[x]]_vars

C10_Witness ==
    /\ last.op = "convert_to_float"
    /\ last.err
    /\ last.cols = {0, 1}
    /\ Len(data) = 2
    /\ heap[data[1]] = (0 :> Num(1) @@ 1 :> Str("x") @@ 2 :> Str("x"))
    /\ heap[data[2]] = (0 :> Str("0") @@ 1 :> Str("1") @@ 2 :> Str("x"))

----------------------------------------------------------------------------
(* The distance specification: a DataSet whose first row holds texts or    *)
(* numbers in any mix (as conversions leave it) and whose other rows are   *)
(* rows of the file; distance is called on observations of the DataSet's   *)
(* format and on the DataSet's own rows.                                   *)

\* The values a field can hold in this specification.
CellValues ==
    {Str(t) : t \in Texts} \cup {ToFloat(Str(t)) : t \in {u \in Texts : IsNumeral(u)}}

FirstRows == {r \in [Cols -> CellValues] : r[class_col] = Str("x")}

\* The rows "in the same format" as the DataSet: a str exactly where the
\* first row has one.
SchemaRows ==
    {r \in FirstRows : \A c \in Cols : IsStr(r[c]) = IsStr(heap[data[1]][c])}

InitDistance ==
    /\ \E len \in 0..MaxTyped :
          /\ heap \in [1..len -> FirstRows]
          /\ \A x \in 2..len : heap[x] \in FileRows
          /\ data = [i \in 1..len |-> i]
    /\ folds = <<>>
    /\ parts = <<>>
    /\ copied = <<>>
    /\ knn = NoKnn
    /\ last = NoOp

NextDistance ==
    \E a, b \in (IF data = <<>> THEN FileRows ELSE SchemaRows \cup {heap[x] : x \in Range(data)}) :
        Distance(a, b)

SpecDistance == InitDistance /\ [][NextDistance]_vars

RECURSIVE SquaredDiffs(_, _, _)
SquaredDiffs(S, a, b) ==
    IF S = {} THEN 0
    ELSE LET c == CHOOSE x \in S : TRUE IN
         (a[c].n - b[c].n) * (a[c].n - b[c].n) + SquaredDiffs(S \ {c}, a, b)

(* C7: on a non-empty DataSet, for all rows a and b of the DataSet's       *)
(* format, distance(a, a) = 0 and distance(a, b) = distance(b, a), and the *)
(* squared distance is the number of categorical attribute columns where   *)
(* a and b differ plus the squared differences of the numeric ones.        *)
C7_DistanceZeroAndSymmetric ==
    (last.op = "distance" /\ data # <<>> /\ Range(last.rows) \subseteq SchemaRows) =>
        LET a == last.rows[1]
            b == last.rows[2]
            dba == distance(heap, data, b, a)
            daa == distance(heap, data, a, a)
            categorical == {c \in Range(attr_cols) : IsStr(heap[data[1]][c])}
        IN /\ ~last.err
           /\ ~daa.err /\ daa.sqrt_of = 0
           /\ ~dba.err /\ dba.sqrt_of = last.arg
           /\ last.arg =
                 Cardinality({c \in categorical : a[c] # b[c]})
                 + SquaredDiffs(Range(attr_cols) \ categorical, a, b)

C7_Witness ==
    /\ last.op = "distance"
    /\ ~last.err
    /\ last.arg = 2
    /\ data # <<>>
    /\ Range(last.rows) \subseteq SchemaRows
    /\ Range(get_str_attr_cols(heap, data).cols) = {1}
    /\ last.rows[1][0] = Num(0)
    /\ last.rows[2][0] = Num(1)

----------------------------------------------------------------------------
(* The aliasing specification: a preprocessed DataSet is copied, cut in    *)
(* two or cut into folds, and the rows of any of the resulting DataSets    *)
(* (or of the source) are then changed in place.                           *)

\* A number in column 0, a text in column 1, the class label.
LoadedRows == {r \in FirstRows : ~IsStr(r[0]) /\ IsStr(r[1])}

InitAlias ==
    /\ \E len \in 1..MaxTyped :
          /\ heap \in [1..len -> LoadedRows]
          /\ data = [i \in 1..len |-> i]
    /\ folds = <<>>
    /\ parts = <<>>
    /\ copied = <<>>
    /\ knn = NoKnn
    /\ last = NoOp

NextAlias ==
    \/ Copy
    \/ \E p \in 0..2 : Partition(p, 2)
    \/ \E n \in 1..2 : ValidationFolds(n)
    \/ \E t \in Targets, value_map \in ValueMaps : ConvertAttribute(t, 1, value_map)
    \/ \E t \in Targets, cols \in {{1}, {0, 1}} : ConvertToFloat(t, cols)
    \/ \E t \in Targets :
          \* the model's z-scores are symbolic and are not normalized again
          /\ \A i \in DOMAIN DataOf(t) : heap[DataOf(t)[i]][0].k # "z"
          /\ NormalizeZScore(t, <<0>>)

SpecAlias == InitAlias /\ [][NextAlias]_vars

MutatingOps == {"normalize_z_score", "convert_attribute", "convert_to_float"}

(* C1: an in-place row mutation applied to a DataSet returned by           *)
(* validation_folds, partition or copy changes no field value observable   *)
(* through the source DataSet or through any other fold's train or test    *)
(* DataSet.                                                                *)
C1_MutationNotObservableElsewhere ==
    [][(last'.op \in MutatingOps /\ last'.target # Source) =>
          /\ \A i \in DOMAIN data : heap'[data[i]] = heap[data[i]]
          /\ last'.target.kind \in {"train", "test"} =>
                \A j \in DOMAIN folds \ {last'.target.i} :
                    \A x \in Range(folds[j].train) \cup Range(folds[j].test) :
                        heap'[x] = heap[x]]_vars

----------------------------------------------------------------------------
(* The editing specification: an EditedKNN is constructed over a training  *)
(* DataSet of points on a line, each of class "A" or "B".                  *)

TrainingRows ==
    {r \in [Cols -> {Num(x) : x \in 0..MaxAttr} \cup {Str("A"), Str("B")}] :
        /\ ~IsStr(r[0])
        /\ r[1] = Num(0)
        /\ IsStr(r[class_col])}

InitEdit ==
    /\ \E len \in 1..MaxTrain :
          /\ heap \in [1..len -> TrainingRows]
          /\ data = [i \in 1..len |-> i]
    /\ folds = <<>>
    /\ parts = <<>>
    /\ copied = <<>>
    /\ knn = NoKnn
    /\ last = NoOp

\* EditedKNN(training_data, k)
Construct(k) ==
    /\ ~knn.built
    /\ knn' = EditedKNNInit(data, k)
    /\ last' = MkLast("EditedKNN", FALSE, k, {}, Source)
    /\ UNCHANGED <<heap, data, folds, parts, copied>>

NextEdit == \E k \in 1..MaxK : Construct(k)

SpecEdit == InitEdit /\ [][NextEdit]_vars

\* The row list without its position i.
Without(L, i) == SubSeq(L, 1, i - 1) \o SubSeq(L, i + 1, Len(L))

\* The training rows whose leave-one-out vote disagrees with their class.
Outliers(k) ==
    {i \in DOMAIN data :
        /\ Len(data) > 1
        /\ KNNPredict(heap, Without(data, i), heap[data[i]], k) # heap[data[i]][class_col]}

(* C5: constructing an Edited k-NN over a training set with one outlier    *)
(* row, whose leave-one-out k-NN vote disagrees with its class, removes    *)
(* that row from the retained training data and retains every row whose    *)
(* leave-one-out vote agrees with its class.                               *)
C5_OutlierRemoved ==
    (knn.built /\ Len(data) > 1 /\ Cardinality(Outliers(knn.k)) = 1) =>
        \A i \in DOMAIN data :
            (data[i] \in Range(knn.training_data)) <=> (i \notin Outliers(knn.k))

====
